---- MODULE Spec2Model ----
(***************************************************************************)
(* Model of logetime.py: one run of main(), which fetches session          *)
(* intervals from the campus API, aggregates them into daily and monthly   *)
(* hour totals, resolves the current session, builds the report and        *)
(* publishes it as a gist.                                                  *)
(*                                                                         *)
(* Time is counted in whole seconds since 2025-03-01T00:00:00Z.  Hours are *)
(* kept as exact numbers: an unrounded duration is a number of seconds     *)
(* (seconds / 3600 hours), a value rounded to 2 decimals is a number of    *)
(* hundredths of an hour (36 s each).  The only place where the binary     *)
(* floating point of the program can differ from exact arithmetic is a     *)
(* value lying exactly half-way between two hundredths; the direction      *)
(* taken there is the environment input tieUp.                             *)
(*                                                                         *)
(* A timestamp of the campus API is an instant serialised in UTC (suffix   *)
(* "Z"), so the datetime parsed from it has offset zero and strftime       *)
(* formats its UTC calendar fields.  An absent value (None, a missing key) *)
(* is the empty sequence <<>>, a present value x is <<x>>.  A string is a  *)
(* sequence of one-character strings.                                      *)
(***************************************************************************)
EXTENDS Integers, Sequences, FiniteSets, TLC

VARIABLES
  env,              \* os.environ.get: what each variable read so far held
  tieUp,            \* direction round() takes on a value half-way
  clock,            \* current time (s)
  pc,               \* position of main()
  log,              \* steps of main() executed so far, in order, with outcome
  locations,        \* main: locations (response of get_logtime_data)
  agg_now,          \* calculate_hours: now
  daily_hours,      \* main: daily_hours (hundredths of an hour per day key)
  monthly_hours,    \* main: monthly_hours
  latest,           \* get_current_session: locations[0] of its own fetch
  cs_now,           \* get_current_session: current_time
  location_info,    \* get_current_session: location_info
  current_session,  \* main: current_session
  local_now,        \* main: now, the naive local time
  output_data,      \* main: output_data
  gist,             \* what the snippet-hosting API holds after the run
  stdout,           \* what the run printed
  exit_status       \* process exit status, <<>> while running

vars == <<env, tieUp, clock, pc, log, locations, agg_now, daily_hours,
          monthly_hours, latest, cs_now, location_info, current_session,
          local_now, output_data, gist, stdout, exit_status>>

None == <<>>
Some(x) == <<x>>
IsSome(o) == o # <<>>
Val(o) == o[1]

---------------------------------------------------------------------------
(* Units and program constants *)

DaySecs == 86400
HourSecs == 3600
RecentDays == 7
Hundredth == HourSecs \div 100

(* Calendar from 2025-03-01: lengths of March, April, May 2025 *)
MonthLengths == <<31, 30, 31>>
Epoch == [year |-> 2025, month |-> 3]

RECURSIVE CivilFrom(_, _)
CivilFrom(n, m) ==
  IF m >= Len(MonthLengths) \/ n < MonthLengths[m]
  THEN [year |-> Epoch.year, month |-> Epoch.month + m - 1, day |-> n + 1]
  ELSE CivilFrom(n - MonthLengths[m], m + 1)

(* Calendar fields of the instant t *)
Civil(t) == CivilFrom(t \div DaySecs, 1)

(* strftime("%Y-%m-%d") and strftime("%Y-%m") *)
DayKey(t) == LET c == Civil(t) IN <<c.year, c.month, c.day>>
MonthKey(t) == LET c == Civil(t) IN <<c.year, c.month>>

(* the digits after the second decimal cut off instead of rounded *)
Truncate2(s, up) == s \div Hundredth

(* round(seconds / 3600, 2), in hundredths of an hour *)
Round2(s, up) ==
  LET q == s \div Hundredth
      r == s % Hundredth
  IN  IF 2 * r < Hundredth THEN q
      ELSE IF 2 * r > Hundredth THEN q + 1
      ELSE IF up THEN q + 1 ELSE q

---------------------------------------------------------------------------
(* calculate_hours *)

EmptyDict == [k \in {} |-> 0]

(* d[k] += v, with d[k] = 0 on first touch *)
DictAdd(d, k, v) ==
  IF k \in DOMAIN d THEN [d EXCEPT ![k] = @ + v] ELSE d @@ (k :> v)

(* the subtraction the wrong way round *)
DurationReversed(loc, now) ==
  loc.begin_at - (IF IsSome(loc.end_at) THEN Val(loc.end_at) ELSE now)

(* duration of one interval, in seconds; an open end_at stands for now *)
Duration(loc, now) ==
  (IF IsSome(loc.end_at) THEN Val(loc.end_at) ELSE now) - loc.begin_at

(* the interval filed under the day and month in which it ends *)
AddIntervalByEnd(acc, loc, now) ==
  LET e == IF IsSome(loc.end_at) THEN Val(loc.end_at) ELSE now
  IN  [daily   |-> DictAdd(acc.daily, DayKey(e), Duration(loc, now)),
       monthly |-> DictAdd(acc.monthly, MonthKey(e), Duration(loc, now))]

(* one pass of the loop body over loc; a is the value of acc, evaluated    *)
(* once                                                                    *)
AddInterval(acc, loc, now) ==
  CHOOSE next \in
    {[daily   |-> DictAdd(a.daily, DayKey(loc.begin_at), Duration(loc, now)),
      monthly |-> DictAdd(a.monthly, MonthKey(loc.begin_at), Duration(loc, now))] :
       a \in {acc}} : TRUE

RECURSIVE Accumulate(_, _, _)
Accumulate(locs, now, acc) ==
  IF locs = <<>> THEN acc
  ELSE Accumulate(Tail(locs), now, AddInterval(acc, Head(locs), now))

(* the two rounding loops *)
RoundAll(d, up) == [k \in DOMAIN d |-> Round2(d[k], up)]

calculate_hours(locs, now, up) ==
  LET raw == Accumulate(locs, now, [daily |-> EmptyDict, monthly |-> EmptyDict])
  IN  [daily |-> RoundAll(raw.daily, up), monthly |-> RoundAll(raw.monthly, up)]

---------------------------------------------------------------------------
(* get_current_session: the location label *)

Dot == "."
Unknown == <<"U", "n", "k", "n", "o", "w", "n">>
Separator == <<" ", "-", " ">>

(* str.split('.')[0] *)
RECURSIVE FirstSegment(_)
FirstSegment(s) ==
  IF s = <<>> \/ Head(s) = Dot THEN <<>>
  ELSE <<Head(s)>> \o FirstSegment(Tail(s))

(* latest.get("host", "Unknown") *)
RawHost(lat) == IF IsSome(lat.host) THEN Val(lat.host) ELSE Unknown

(* campus: None unless "campus" in location_info *)
CampusOf(info) == IF IsSome(info.campus) THEN Some(Val(info.campus).name) ELSE None

(* cluster: None unless location_info has a non-empty host *)
ClusterOf(info) ==
  IF IsSome(info.host) /\ Val(info.host) # <<>>
  THEN Some(FirstSegment(Val(info.host))) ELSE None

Truthy(o) == IsSome(o) /\ Val(o) # <<>>

(* "or" in place of "and": a label formatted from one part alone *)
LocationLabelEither(lat, info) ==
  LET campus == CampusOf(info)
      cluster == ClusterOf(info)
      text(o) == IF IsSome(o) THEN Val(o) ELSE <<"N", "o", "n", "e">>
  IN  IF Truthy(campus) \/ Truthy(cluster)
      THEN text(campus) \o Separator \o text(cluster)
      ELSE RawHost(lat)

LocationLabel(lat, info) ==
  LET campus == CampusOf(info)
      cluster == ClusterOf(info)
  IN  IF Truthy(campus) /\ Truthy(cluster)
      THEN Val(campus) \o Separator \o Val(cluster)
      ELSE RawHost(lat)

(* int() in place of round(): the duration cut off, not rounded *)
SessionRecordTruncated(lat, info, now, up) ==
  [begin_at |-> lat.begin_at,
   duration_hours |-> (now - lat.begin_at) \div Hundredth,
   location |-> LocationLabel(lat, info)]

SessionRecord(lat, info, now, up) ==
  [begin_at |-> lat.begin_at,
   duration_hours |-> Round2(now - lat.begin_at, up),
   location |-> LocationLabel(lat, info)]

---------------------------------------------------------------------------
(* main: the report *)

(* sum of d over keys; ks is the value of keys, evaluated once *)
RECURSIVE SumOver(_, _)
SumOver(d, keys) ==
  CHOOSE total \in
    {IF ks = {} THEN 0
     ELSE LET k == CHOOSE x \in ks : TRUE
          IN  d[k] + SumOver(d, ks \ {k}) : ks \in {keys}} : TRUE

(* sum(daily_hours.values()) *)
SumValues(d) == SumOver(d, DOMAIN d)

(* recent_days: the date of now minus 0..6 days, formatted; now is naive  *)
(* local time, whose fields strftime formats as they are                   *)
RecentKeys(now) == {DayKey(now - i * DaySecs) : i \in 0 .. RecentDays - 1}

(* sum(daily_hours.get(day, 0) for day in recent_days) *)
RecentTotal(d, now) == SumOver(d, RecentKeys(now) \cap DOMAIN d)

BuildOutput(daily, monthly, session, now) ==
  [total_hours |-> SumValues(daily),
   recent_daily_total |-> RecentTotal(daily, now),
   daily_hours |-> daily,
   monthly_hours |-> monthly,
   updated_at |-> now,
   current_session |-> session]

---------------------------------------------------------------------------
(* Inputs: the environment and the responses of the two APIs *)

MaxIntervals == 3

At(day, hh, mm, ss) == day * DaySecs + hh * HourSecs + mm * 60 + ss

(* begin times: 03-30 12:00, 03-31 23:00, 04-01 08:00, 04-01 12:00 (UTC) *)
BeginTimes == {At(29, 12, 0, 0), At(30, 23, 0, 0), At(31, 8, 0, 0), At(31, 12, 0, 0)}

(* recorded session lengths: 14 s and 2 h *)
SessionLengths == {14, 2 * HourSecs}

(* readings of the clock: 04-01 23:30:18 and 04-02 01:30:25 (UTC) *)
Times == {At(31, 23, 30, 18), At(32, 1, 30, 25)}

(* UTC offsets of the machine's local time zone: UTC and UTC+2 *)
LocalOffsets == {0, 2 * HourSecs}

Intervals ==
  {[begin_at |-> b, end_at |-> None] : b \in BeginTimes} \cup
  {[begin_at |-> b, end_at |-> Some(b + n)] : b \in BeginTimes, n \in SessionLengths}

(* the endpoint is asked for sort=-begin_at: newest first *)
Descending(s) == \A i \in 1 .. Len(s) - 1 : s[i].begin_at > s[i + 1].begin_at

LocationLists ==
  UNION {{s \in [1 .. n -> Intervals] : Descending(s)} : n \in 0 .. MaxIntervals}

(* a week of sessions: one hour from 00:30 local time on each of the 7     *)
(* local days ending on day w, for a machine at offset o                   *)
WeekList(w, o) ==
  [i \in 1 .. RecentDays |->
     [begin_at |-> At(w - (i - 1), 0, 30, 0) - o,
      end_at |-> Some(At(w - (i - 1), 0, 30, 0) - o + HourSecs)]]

WeekLists == {WeekList(w, o) : w \in {31, 32}, o \in LocalOffsets}

Hosts == {<<"a">>}
DetailHosts == {<<>>, <<"a", Dot, "b">>, <<Dot, "b">>}
CampusNames == {<<>>, <<"P">>}

(* page[size]=1 of the same endpoint: nothing, or the newest interval *)
LatestResponses ==
  {None} \cup
  {Some([begin_at |-> At(31, 12, 0, 0), end_at |-> Some(At(31, 14, 0, 0)),
         host |-> Some(x)]) : x \in Hosts} \cup
  {Some([begin_at |-> At(31, 12, 0, 0), end_at |-> None, host |-> h]) :
     h \in {None} \cup {Some(x) : x \in Hosts}}

LocationInfos ==
  {[campus |-> c, host |-> h] :
     c \in {None} \cup {Some([name |-> n]) : n \in CampusNames},
     h \in {None} \cup {Some(x) : x \in DetailHosts}}

EnvNames == {"FT_CLIENT_ID", "FT_CLIENT_SECRET", "GH_TOKEN", "GIST_ID"}

(* os.environ.get(name): a non-empty value, or None or an empty one *)
EnvValues == {"set", "unset"}

---------------------------------------------------------------------------
(* The run *)

Init ==
  /\ env = [n \in EnvNames |-> "unread"]
  /\ tieUp \in BOOLEAN
  /\ clock = CHOOSE t \in Times : \A u \in Times : t <= u
  /\ pc = "get_access_token"
  /\ log = <<>>
  /\ locations = <<>>
  /\ agg_now = None
  /\ daily_hours = EmptyDict
  /\ monthly_hours = EmptyDict
  /\ latest = None
  /\ cs_now = None
  /\ location_info = None
  /\ current_session = None
  /\ local_now = None
  /\ output_data = None
  /\ gist = None
  /\ stdout = <<>>
  /\ exit_status = None

Entry(step, ok) == [step |-> step, ok |-> ok]

(* except Exception as e: print(f"Error: {e}"); exit(1) *)
Abort ==
  /\ pc' = "failed"
  /\ stdout' = Append(stdout, "Error")
  /\ exit_status' = Some(1)

Continue(next) ==
  /\ pc' = next
  /\ UNCHANGED <<stdout, exit_status>>

(* the lines printed after a successful publish *)
Summary(session) ==
  <<"Successfully updated">>
  \o (IF IsSome(session) THEN <<"Current active session">> ELSE <<>>)
  \o <<"Setup instructions">>

(* datetime.now(): the clock never runs backwards *)
ReadClock(t) == t \in Times /\ t >= clock /\ clock' = t

(* "and" in place of "or" in the test of the two credentials *)
get_access_token_lax ==
  /\ pc = "get_access_token"
  /\ \E id \in EnvValues, secret \in EnvValues :
       /\ env' = [env EXCEPT !["FT_CLIENT_ID"] = id, !["FT_CLIENT_SECRET"] = secret]
       /\ \/ /\ id = "unset" /\ secret = "unset"
             /\ Abort
             /\ UNCHANGED log
          \/ /\ id = "set" \/ secret = "set"
             /\ \E ok \in BOOLEAN :
                  /\ log' = Append(log, Entry("token", ok))
                  /\ IF ok THEN Continue("get_user_data") ELSE Abort
  /\ UNCHANGED <<tieUp, clock, locations, agg_now, daily_hours, monthly_hours,
                 latest, cs_now, location_info, current_session, local_now,
                 output_data, gist>>

get_access_token ==
  /\ pc = "get_access_token"
  /\ \E id \in EnvValues, secret \in EnvValues :
       /\ env' = [env EXCEPT !["FT_CLIENT_ID"] = id, !["FT_CLIENT_SECRET"] = secret]
       /\ \/ /\ id = "unset" \/ secret = "unset"
             /\ Abort
             /\ UNCHANGED log
          \/ /\ id = "set" /\ secret = "set"
             /\ \E ok \in BOOLEAN :
                  /\ log' = Append(log, Entry("token", ok))
                  /\ IF ok THEN Continue("get_user_data") ELSE Abort
  /\ UNCHANGED <<tieUp, clock, locations, agg_now, daily_hours, monthly_hours,
                 latest, cs_now, location_info, current_session, local_now,
                 output_data, gist>>

(* a response never checked: raise_for_status() left out *)
get_user_data_unchecked ==
  /\ pc = "get_user_data"
  /\ \E ok \in BOOLEAN : log' = Append(log, Entry("user", ok))
  /\ Continue("get_logtime_data")
  /\ UNCHANGED <<env, tieUp, clock, locations, agg_now, daily_hours,
                 monthly_hours, latest, cs_now, location_info, current_session,
                 local_now, output_data, gist>>

(* a failed request sent again *)
get_user_data_retrying ==
  /\ pc = "get_user_data"
  /\ \E ok \in BOOLEAN :
       /\ log' = Append(log, Entry("user", ok))
       /\ IF ok THEN Continue("get_logtime_data")
          ELSE IF Len(log) < 3 THEN Continue("get_user_data") ELSE Abort
  /\ UNCHANGED <<env, tieUp, clock, locations, agg_now, daily_hours,
                 monthly_hours, latest, cs_now, location_info, current_session,
                 local_now, output_data, gist>>

get_user_data ==
  /\ pc = "get_user_data"
  /\ \E ok \in BOOLEAN :
       /\ log' = Append(log, Entry("user", ok))
       /\ IF ok THEN Continue("get_logtime_data") ELSE Abort
  /\ UNCHANGED <<env, tieUp, clock, locations, agg_now, daily_hours,
                 monthly_hours, latest, cs_now, location_info, current_session,
                 local_now, output_data, gist>>

get_logtime_data(responses) ==
  /\ pc = "get_logtime_data"
  /\ \/ /\ log' = Append(log, Entry("locations", FALSE))
        /\ Abort
        /\ UNCHANGED locations
     \/ /\ log' = Append(log, Entry("locations", TRUE))
        /\ \E r \in responses : locations' = r
        /\ Continue("calculate_hours")
  /\ UNCHANGED <<env, tieUp, clock, agg_now, daily_hours, monthly_hours,
                 latest, cs_now, location_info, current_session, local_now,
                 output_data, gist>>

(* the report built right after the totals, get_current_session left out *)
calculate_hours_step_then_build ==
  /\ pc = "calculate_hours"
  /\ \E t \in Times :
       /\ ReadClock(t)
       /\ agg_now' = Some(t)
       /\ daily_hours' = calculate_hours(locations, t, tieUp).daily
       /\ monthly_hours' = calculate_hours(locations, t, tieUp).monthly
  /\ log' = Append(log, Entry("aggregate", TRUE))
  /\ Continue("build_report")
  /\ UNCHANGED <<env, tieUp, locations, latest, cs_now, location_info,
                 current_session, local_now, output_data, gist>>

calculate_hours_step ==
  /\ pc = "calculate_hours"
  /\ \E t \in Times :
       /\ ReadClock(t)
       /\ agg_now' = Some(t)
       /\ daily_hours' = calculate_hours(locations, t, tieUp).daily
       /\ monthly_hours' = calculate_hours(locations, t, tieUp).monthly
  /\ log' = Append(log, Entry("aggregate", TRUE))
  /\ Continue("get_current_session")
  /\ UNCHANGED <<env, tieUp, locations, latest, cs_now, location_info,
                 current_session, local_now, output_data, gist>>

(* get_current_session up to the test of latest["end_at"] *)
get_current_session ==
  /\ pc = "get_current_session"
  /\ \/ /\ log' = Append(log, Entry("latest", FALSE))
        /\ Abort
        /\ UNCHANGED <<latest, cs_now, clock>>
     \/ /\ log' = Append(log, Entry("latest", TRUE))
        /\ \E r \in LatestResponses :
             /\ latest' = r
             /\ IF IsSome(r) /\ ~IsSome(Val(r).end_at)
                THEN /\ \E t \in Times : ReadClock(t) /\ cs_now' = Some(t)
                     /\ Continue("get_user_location")
                ELSE /\ UNCHANGED <<cs_now, clock>>
                     /\ Continue("build_report")
  /\ UNCHANGED <<env, tieUp, locations, agg_now, daily_hours, monthly_hours,
                 location_info, current_session, local_now, output_data, gist>>

(* get_current_session from get_user_location to its return *)
get_user_location ==
  /\ pc = "get_user_location"
  /\ \/ /\ log' = Append(log, Entry("detail", FALSE))
        /\ Abort
        /\ UNCHANGED <<location_info, current_session>>
     \/ /\ log' = Append(log, Entry("detail", TRUE))
        /\ \E info \in LocationInfos :
             /\ location_info' = Some(info)
             /\ current_session' =
                  Some(SessionRecord(Val(latest), info, Val(cs_now), tieUp))
        /\ Continue("build_report")
  /\ UNCHANGED <<env, tieUp, clock, locations, agg_now, daily_hours,
                 monthly_hours, latest, cs_now, local_now, output_data, gist>>

(* main, from total_hours to output_data *)
build_report ==
  /\ pc = "build_report"
  /\ \E t \in Times, offset \in LocalOffsets :
       /\ ReadClock(t)
       /\ local_now' = Some(t + offset)
       /\ output_data' =
            Some(BuildOutput(daily_hours, monthly_hours, current_session,
                             t + offset))
  /\ log' = Append(log, Entry("build", TRUE))
  /\ Continue("create_or_update_gist")
  /\ UNCHANGED <<env, tieUp, locations, agg_now, daily_hours, monthly_hours,
                 latest, cs_now, location_info, current_session, gist>>

(* create_or_update_gist and the summary printed after it *)
create_or_update_gist ==
  /\ pc = "create_or_update_gist"
  /\ \/ /\ env' = [env EXCEPT !["GH_TOKEN"] = "unset"]
        /\ Abort
        /\ UNCHANGED <<log, gist>>
     \/ /\ \E id \in EnvValues, ok \in BOOLEAN :
             /\ env' = [env EXCEPT !["GH_TOKEN"] = "set", !["GIST_ID"] = id]
             /\ log' = Append(log, [step |-> "publish", ok |-> ok,
                                    method |-> IF id = "set" THEN "PATCH"
                                               ELSE "POST"])
             /\ IF ok
                THEN /\ gist' = output_data
                     /\ pc' = "done"
                     /\ stdout' = stdout \o Summary(current_session)
                     /\ exit_status' = Some(0)
                ELSE Abort /\ UNCHANGED gist
  /\ UNCHANGED <<tieUp, clock, locations, agg_now, daily_hours, monthly_hours,
                 latest, cs_now, location_info, current_session, local_now,
                 output_data>>

Run(responses) ==
  \/ get_access_token
  \/ get_user_data
  \/ get_logtime_data(responses)
  \/ calculate_hours_step
  \/ get_current_session
  \/ get_user_location
  \/ build_report
  \/ create_or_update_gist

Next == Run(LocationLists)

Spec == Init /\ [][Next]_vars

(* the same run, fed a week of sessions *)
NextWeek == Run(WeekLists)

SpecWeek == Init /\ [][NextWeek]_vars

(* main is one thread of blocking calls, each of which returns: a step     *)
(* that can be taken is taken                                              *)
FairSpec == Spec /\ WF_vars(Next)

---------------------------------------------------------------------------
(* Vocabulary of the properties *)

(* calculate_hours has just returned; nothing after it writes agg_now,    *)
(* daily_hours or monthly_hours                                            *)
Aggregated == pc = "get_current_session"
Ended == pc \in {"done", "failed"}
Indices == 1 .. Len(locations)
IsOpen(loc) == ~IsSome(loc.end_at)

(* (end_at or now) - begin_at of the i-th interval, as the claim states it *)
WholeDuration(i, now) ==
  IF IsOpen(locations[i]) THEN now - locations[i].begin_at
  ELSE Val(locations[i].end_at) - locations[i].begin_at

RECURSIVE SumDurations(_, _)
SumDurations(idx, now) ==
  IF idx = {} THEN 0
  ELSE LET i == CHOOSE x \in idx : TRUE
       IN  WholeDuration(i, now) + SumDurations(idx \ {i}, now)

InDay(k) == {i \in Indices : DayKey(locations[i].begin_at) = k}
InMonth(k) == {i \in Indices : MonthKey(locations[i].begin_at) = k}

StepsOf(l) == [i \in 1 .. Len(l) |-> l[i].step]
Sent(step) == \E i \in 1 .. Len(log) : log[i].step = step
SucceededBefore(step, i) == \E j \in 1 .. i - 1 : log[j].step = step /\ log[j].ok
CampusSteps == {"token", "user", "locations", "latest", "detail"}

---------------------------------------------------------------------------
(* C1: every interval adds its whole duration ((end_at or now) - begin_at) *)
(* to exactly one daily bucket and one monthly bucket, those of the UTC    *)
(* date and UTC month of its begin_at; an interval crossing a day or month *)
(* boundary is not split, and no other bucket exists.                      *)
C1_BucketsByBegin ==
  Aggregated =>
    /\ DOMAIN daily_hours = {DayKey(locations[i].begin_at) : i \in Indices}
    /\ DOMAIN monthly_hours = {MonthKey(locations[i].begin_at) : i \in Indices}
    /\ \A k \in DOMAIN daily_hours :
         daily_hours[k] = Round2(SumDurations(InDay(k), Val(agg_now)), tieUp)
    /\ \A k \in DOMAIN monthly_hours :
         monthly_hours[k] = Round2(SumDurations(InMonth(k), Val(agg_now)), tieUp)

(* an interval from 03-31 23:00 to 04-01 01:00 next to two intervals of    *)
(* one day has been aggregated                                             *)
C1_Witness ==
  /\ Aggregated
  /\ \E i \in Indices :
       /\ ~IsOpen(locations[i])
       /\ DayKey(locations[i].begin_at) # DayKey(Val(locations[i].end_at))
       /\ MonthKey(locations[i].begin_at) # MonthKey(Val(locations[i].end_at))
  /\ \E k \in DOMAIN daily_hours : Cardinality(InDay(k)) = 2

---------------------------------------------------------------------------
Abs(x) == IF x < 0 THEN -x ELSE x

AllClosed == \A i \in Indices : ~IsOpen(locations[i])

Disjoint ==
  \A i, j \in Indices :
    i # j => \/ Val(locations[i].end_at) <= locations[j].begin_at
             \/ Val(locations[j].end_at) <= locations[i].begin_at

(* sum(daily_hours.values()) minus the sum of the durations, in seconds *)
RoundingGap ==
  Abs(Hundredth * SumValues(daily_hours) - SumDurations(Indices, Val(agg_now)))

(* C2 as stated: for disjoint intervals that all have an end_at, the sum   *)
(* of the daily_hours values differs from the sum of the durations by at   *)
(* most 0.01 h, whatever the number of day buckets.                        *)
C2_Original ==
  (Aggregated /\ AllClosed /\ Disjoint) => RoundingGap <= Hundredth

(* C2 as amended: the difference is at most 0.005 h for each distinct day  *)
(* bucket (each bucket is rounded once, after accumulation).               *)
C2_GapPerBucket ==
  (Aggregated /\ AllClosed /\ Disjoint) =>
    2 * RoundingGap <= Hundredth * Cardinality(DOMAIN daily_hours)

(* three day buckets whose rounding errors add up to more than 0.01 h *)
C2_Witness ==
  /\ Aggregated /\ AllClosed /\ Disjoint
  /\ Cardinality(DOMAIN daily_hours) = 3
  /\ RoundingGap > Hundredth

---------------------------------------------------------------------------
(* later readings of the clock with which the totals are computed again *)
LaterNows(now) == {now, now + 1, now + Hundredth \div 2, now + HourSecs}

HoldsOpen(idx) == \E i \in idx : IsOpen(locations[i])

(* C6: an open interval contributes now - begin_at, now being the one      *)
(* reading taken by calculate_hours, to the day and month bucket of its    *)
(* begin_at; computed again with a later now, neither bucket gets smaller, *)
(* and a bucket holding no open interval keeps its value.                  *)
C6_OpenGrows ==
  Aggregated =>
    LET now == Val(agg_now)
        OpenPart(idx) ==
          SumDurations({i \in idx : IsOpen(locations[i])}, 0)
          + now * Cardinality({i \in idx : IsOpen(locations[i])})
        ClosedPart(idx) == SumDurations({i \in idx : ~IsOpen(locations[i])}, 0)
    IN  /\ \A k \in DOMAIN daily_hours :
             daily_hours[k] =
               Round2(ClosedPart(InDay(k)) + OpenPart(InDay(k)), tieUp)
        /\ \A k \in DOMAIN monthly_hours :
             monthly_hours[k] =
               Round2(ClosedPart(InMonth(k)) + OpenPart(InMonth(k)), tieUp)
        /\ \A later \in LaterNows(now) :
             LET again == calculate_hours(locations, later, tieUp)
             IN  /\ DOMAIN again.daily = DOMAIN daily_hours
                 /\ DOMAIN again.monthly = DOMAIN monthly_hours
                 /\ \A k \in DOMAIN daily_hours :
                      /\ again.daily[k] >= daily_hours[k]
                      /\ ~HoldsOpen(InDay(k)) => again.daily[k] = daily_hours[k]
                 /\ \A k \in DOMAIN monthly_hours :
                      /\ again.monthly[k] >= monthly_hours[k]
                      /\ ~HoldsOpen(InMonth(k)) =>
                           again.monthly[k] = monthly_hours[k]

(* an open interval in one bucket, a bucket without one, and a later now   *)
(* for which the open bucket has grown                                     *)
C6_Witness ==
  /\ Aggregated
  /\ \E k \in DOMAIN daily_hours : HoldsOpen(InDay(k))
  /\ \E k \in DOMAIN daily_hours : ~HoldsOpen(InDay(k))
  /\ \E k \in DOMAIN daily_hours :
       calculate_hours(locations, Val(agg_now) + HourSecs, tieUp).daily[k]
         > daily_hours[k]

---------------------------------------------------------------------------
SessionOpen == IsSome(latest) /\ IsOpen(Val(latest))

(* C3: a publish request is sent only after the token request, the user    *)
(* fetch, the locations fetch and the current-session fetches have all     *)
(* succeeded and the full report has been built; after a campus API call   *)
(* that fails, the run aborts: the call is not sent again and no publish   *)
(* request is sent.                                                        *)
C3_PublishOnlyAfterAll ==
  /\ \A i \in 1 .. Len(log) :
       log[i].step = "publish" =>
         /\ \A st \in {"token", "user", "locations", "latest"} :
              SucceededBefore(st, i)
         /\ SessionOpen => SucceededBefore("detail", i)
         /\ SucceededBefore("build", i)
         /\ output_data =
              Some(BuildOutput(daily_hours, monthly_hours, current_session,
                               Val(local_now)))
  /\ \A i \in 1 .. Len(log) :
       (log[i].step \in CampusSteps /\ ~log[i].ok) =>
         /\ i = Len(log)
         /\ pc = "failed"
         /\ gist = None
         /\ \A j \in 1 .. i - 1 : log[j].step # log[i].step

(* a publish request sent after a run that fetched the location detail *)
C3_Witness == Sent("publish") /\ Sent("detail")

---------------------------------------------------------------------------
(* C4: with FT_CLIENT_ID or FT_CLIENT_SECRET unset the run aborts before   *)
(* any request to the campus API; with GH_TOKEN unset it aborts before any *)
(* request to the snippet-hosting API.  Either way the run ends in the     *)
(* error state and nothing is published.                                   *)
C4_ConfigurationErrors ==
  /\ (env["FT_CLIENT_ID"] = "unset" \/ env["FT_CLIENT_SECRET"] = "unset") =>
       /\ log = <<>>
       /\ pc = "failed" /\ stdout = <<"Error">> /\ exit_status = Some(1)
       /\ gist = None
  /\ env["GH_TOKEN"] = "unset" =>
       /\ ~Sent("publish")
       /\ pc = "failed" /\ stdout = <<"Error">> /\ exit_status = Some(1)
       /\ gist = None

(* a run that built its report and found GH_TOKEN unset *)
C4_Witness ==
  /\ env["GH_TOKEN"] = "unset"
  /\ IsSome(output_data)
  /\ pc = "failed"

---------------------------------------------------------------------------
(* C7: the published report has a current_session exactly when the most    *)
(* recent interval is open; without one, no location-detail request was    *)
(* made; with one, it carries the interval's begin_at and duration_hours = *)
(* (now_utc - begin_at) in hours rounded to 2 decimals.                    *)
C7_CurrentSession ==
  IsSome(gist) =>
    LET session == Val(gist).current_session
    IN  /\ IsSome(session) <=> SessionOpen
        /\ ~IsSome(session) => ~Sent("detail")
        /\ IsSome(session) =>
             /\ Val(session).begin_at = Val(latest).begin_at
             /\ 2 * Abs(Hundredth * Val(session).duration_hours
                        - (Val(cs_now) - Val(latest).begin_at)) <= Hundredth

(* a report published with a current session *)
C7_Witness == IsSome(gist) /\ IsSome(Val(gist).current_session)

---------------------------------------------------------------------------
(* C8: every run ends.  A run that fails prints "Error: <message>" and     *)
(* exits with a non-zero status; a run whose steps all succeed prints the  *)
(* summary and ends with status 0, after one pass in which no step is      *)
(* repeated.                                                               *)
C8_RunEnds ==
  /\ <>Ended
  /\ [](~Ended => (exit_status = None /\ stdout = <<>>))
  /\ [](pc = "failed" =>
          /\ stdout = <<"Error">>
          /\ exit_status # None /\ Val(exit_status) # 0)
  /\ [](pc = "done" =>
          /\ stdout = Summary(current_session)
          /\ exit_status = Some(0)
          /\ \A i \in 1 .. Len(log) : log[i].ok)
  /\ [](\A i, j \in 1 .. Len(log) : i # j => log[i].step # log[j].step)

(* a run that went through all eight steps and ended with success *)
C8_Witness == pc = "done" /\ Len(log) = 8

---------------------------------------------------------------------------
PipelineWithDetail ==
  <<"token", "user", "locations", "aggregate", "latest", "detail", "build",
    "publish">>
PipelineWithoutDetail ==
  <<"token", "user", "locations", "aggregate", "latest", "build", "publish">>

IsPrefix(s, t) == Len(s) <= Len(t) /\ s = SubSeq(t, 1, Len(s))

Position(step) == CHOOSE i \in 1 .. Len(log) : log[i].step = step

(* place of a step in the order the claim gives; 0 for a step it leaves out *)
StatedRank(step) ==
  CASE step = "token" -> 1
    [] step = "user" -> 2
    [] step = "locations" -> 3
    [] step = "detail" -> 4
    [] step = "aggregate" -> 5
    [] step = "publish" -> 6
    [] OTHER -> 0

(* C9 as stated: the steps run one after another in the order token, user  *)
(* fetch, locations fetch, (conditional) location-detail fetch,            *)
(* aggregation, publish, each after the previous one has succeeded; the    *)
(* location-detail fetch, when it happens, precedes aggregation.           *)
C9_Original ==
  /\ \A i, j \in 1 .. Len(log) :
       (i < j /\ StatedRank(log[i].step) > 0 /\ StatedRank(log[j].step) > 0) =>
         StatedRank(log[i].step) < StatedRank(log[j].step)
  /\ \A i \in 1 .. Len(log) - 1 : log[i].ok

(* C9 as amended: the order is token, user fetch, locations fetch,         *)
(* aggregation, most-recent-interval fetch, (conditional) location-detail  *)
(* fetch, report building, publish, each step after the previous one has   *)
(* succeeded; the location-detail fetch, when it happens, follows          *)
(* aggregation.                                                            *)
C9_OrderOfSteps ==
  /\ \/ IsPrefix(StepsOf(log), PipelineWithDetail)
     \/ IsPrefix(StepsOf(log), PipelineWithoutDetail)
  /\ \A i \in 1 .. Len(log) - 1 : log[i].ok
  /\ Sent("detail") => (Sent("aggregate") /\ Position("aggregate") < Position("detail"))
  /\ Sent("detail") <=> (SessionOpen /\ pc # "get_user_location")

(* a run that fetched the location detail and went on to publish *)
C9_Witness == Sent("detail") /\ Sent("publish") /\ pc = "done"

---------------------------------------------------------------------------
(* c is the first dot-separated segment of h *)
IsFirstSegment(c, h) ==
  \E n \in 0 .. Len(h) :
    /\ c = SubSeq(h, 1, n)
    /\ \A j \in 1 .. n : h[j] # "."
    /\ n = Len(h) \/ h[n + 1] = "."

---------------------------------------------------------------------------
(* the machine's UTC offset, once main has read its local time *)
OffsetRead == Val(local_now) - clock

(* intervals that begin on the local calendar day i days before today *)
InLocalDay(i) ==
  {j \in Indices :
     DayKey(locations[j].begin_at + OffsetRead) = DayKey(Val(local_now) - i * DaySecs)}

RECURSIVE SumRecentBuckets(_)
SumRecentBuckets(i) ==
  IF i < 0 THEN 0
  ELSE LET k == DayKey(Val(local_now) - i * DaySecs)
       IN  (IF k \in DOMAIN daily_hours THEN daily_hours[k] ELSE 0)
           + SumRecentBuckets(i - 1)

(* C5: recent_daily_total is the sum of the daily_hours buckets of the 7   *)
(* calendar days ending today, absent days counting 0; when each of those  *)
(* 7 days has intervals of the same total duration d, it equals 7*d (here  *)
(* up to the rounding of the 7 buckets), wherever in their days the        *)
(* intervals begin and whatever the current time.                          *)
C5_RecentTotal ==
  pc = "create_or_update_gist" =>
    LET recent == Val(output_data).recent_daily_total
        d == SumDurations(InLocalDay(0), Val(agg_now))
    IN  /\ recent = SumRecentBuckets(RecentDays - 1)
        /\ (\A i \in 0 .. RecentDays - 1 :
              /\ InLocalDay(i) # {}
              /\ SumDurations(InLocalDay(i), Val(agg_now)) = d) =>
             2 * Abs(Hundredth * recent - RecentDays * d) <= RecentDays * Hundredth

====
